---- MODULE Spec2Model ----
(***************************************************************************)
(* Model of ImageToolkitExtension.py: the Nautilus menu handlers, the      *)
(* ImageHelperCommand family (output-path selection, worker thread,        *)
(* subprocess hand-off) and the Notifier, together with the GLib idle      *)
(* queue of the UI thread, the external ImageMagick process and the        *)
(* filesystem they share.                                                  *)
(*                                                                         *)
(* Text is modelled as a sequence of one-character strings, captured       *)
(* process output as a sequence of bytes (0..255), decoded text as a       *)
(* sequence of code points.                                                *)
(***************************************************************************)
EXTENDS Integers, Sequences, FiniteSets, TLC

\* Number of menu activations (Commands) in one behaviour of Spec.
MaxCmds == 2
\* Number of completed conversions in one behaviour of PathSpec.
MaxConv == 3

VARIABLES
    files,      \* the filesystem: set of paths that exist
    cmds,       \* Commands constructed so far (self.file_path, execute()'s locals)
    worker,     \* per Command: the thread running _runner
    proc,       \* per Command: the external process started by Popen
    idle,       \* GLib's idle queue, drained by the UI thread
    posted,     \* per Command: every idle_add made for it, with the posting thread
    ran,        \* per Command: every callback executed for it, with the executing thread
    disk,       \* PathSpec: the filesystem
    pending,    \* PathSpec: the Command whose output path has been computed
    nconv       \* PathSpec: conversions completed

vars == <<files, cmds, worker, proc, idle, posted, ran, disk, pending, nconv>>
mainVars == <<files, cmds, worker, proc, idle, posted, ran>>
pathVars == <<disk, pending, nconv>>

----------------------------------------------------------------------------
(* Strings and paths (posixpath)                                           *)

\* str.rfind: the last index of ch in p, 0 when absent (Python's -1).
rfind(p, ch) ==
    LET hits == {k \in 1..Len(p) : p[k] = ch}
    IN  IF hits = {} THEN 0 ELSE CHOOSE k \in hits : \A j \in hits : j <= k

\* os.path.splitext: the extension starts at the last dot of the last path
\* component, unless that component has only dots before it.
splitext(p) ==
    LET sepIndex == rfind(p, "/")
        dotIndex == rfind(p, ".")
    IN  IF /\ dotIndex > sepIndex
           /\ \E k \in (sepIndex + 1)..(dotIndex - 1) : p[k] # "."
        THEN <<SubSeq(p, 1, dotIndex - 1), SubSeq(p, dotIndex, Len(p))>>
        ELSE <<p, <<>>>>

\* os.path.basename
basename(p) == SubSeq(p, rfind(p, "/") + 1, Len(p))

\* str.rstrip("/")
RECURSIVE rstrip_sep(_)
rstrip_sep(p) ==
    IF p # <<>> /\ p[Len(p)] = "/" THEN rstrip_sep(SubSeq(p, 1, Len(p) - 1)) ELSE p

\* os.path.dirname
dirname(p) ==
    LET head == SubSeq(p, 1, rfind(p, "/"))
    IN  IF head # <<>> /\ (\E k \in 1..Len(head) : head[k] # "/")
        THEN rstrip_sep(head)
        ELSE head

\* os.path.join(a, b)
join(a, b) ==
    IF b # <<>> /\ b[1] = "/" THEN b
    ELSE IF a = <<>> \/ a[Len(a)] = "/" THEN a \o b
    ELSE a \o <<"/">> \o b

\* One decimal digit as text.
Digit(d) ==
    CASE d = 0 -> "0" [] d = 1 -> "1" [] d = 2 -> "2" [] d = 3 -> "3" [] d = 4 -> "4"
      [] d = 5 -> "5" [] d = 6 -> "6" [] d = 7 -> "7" [] d = 8 -> "8" [] d = 9 -> "9"

\* The f-string conversion {i} of a non-negative int.
RECURSIVE IntToStr(_)
IntToStr(i) == IF i < 10 THEN <<Digit(i)>> ELSE IntToStr(i \div 10) \o <<Digit(i % 10)>>

\* os.path.exists on the filesystem fs
exists(fs, p) == p \in fs

----------------------------------------------------------------------------
(* ImageHelperCommand: accessors and output-path selection                 *)

get_file(file_path) == basename(file_path)

get_file_directory(file_path) == dirname(file_path)

get_name(file_path) == splitext(get_file(file_path))[1]

\* self.file_path.split("/")[-1]
get_file_name(file_path) == SubSeq(file_path, rfind(file_path, "/") + 1, Len(file_path))

\* f"{base} ({i}){ext}"
Decorated(base, i, ext) == base \o <<" ", "(">> \o IntToStr(i) \o <<")">> \o ext

\* The while loop of _generate_output_path, entered with counter i.
RECURSIVE Scan(_, _, _, _, _)
Scan(fs, output_path, base, ext, i) ==
    IF exists(fs, output_path)
    THEN Scan(fs, Decorated(base, i, ext), base, ext, i + 1)
    ELSE output_path

_generate_output_path(fs, file_path, name, extension) ==
    LET output_path == join(get_file_directory(file_path), name \o extension)
    IN  IF exists(fs, output_path)
        THEN LET se == splitext(output_path)
             IN  Scan(fs, output_path, se[1], se[2], 1)
        ELSE output_path

Ops == {"png", "jpeg", "nobg"}

PngExt == <<".", "p", "n", "g">>
JpgExt == <<".", "j", "p", "g">>
NoBgSuffix == <<"-", "n", "o", "-", "b", "g">>

\* The extension each execute() passes to _generate_output_path.
TargetExt(op) == IF op = "jpeg" THEN JpgExt ELSE PngExt

\* The name each execute() passes to _generate_output_path.
TargetName(op, file_path) ==
    IF op = "nobg" THEN get_name(file_path) \o NoBgSuffix ELSE get_name(file_path)

\* output_path as computed by the three execute() methods.
ExecuteOutputPath(op, fs, file_path) ==
    _generate_output_path(fs, file_path, TargetName(op, file_path), TargetExt(op))

\* The argument list each execute() builds.
CommandLine(op, file_path, output_path) ==
    [tool    |-> "magick",
     src     |-> file_path,
     options |-> IF op = "nobg" THEN <<"-fuzz", "20%", "-transparent", "white">> ELSE <<>>,
     dst     |-> output_path]

----------------------------------------------------------------------------
(* Menu glue                                                               *)

is_png(file) == file.mime = "image/png"

is_jpeg(file) == file.mime = "image/jpeg" \/ file.mime = "image/jpg"

PhotoJPG == [path |-> <<"/", "d", "/", "p", "h", "o", "t", "o", ".", "J", "P", "G">>,
             mime |-> "image/jpeg"]
LogoPng  == [path |-> <<"/", "d", "/", "l", "o", "g", "o", ".", "p", "n", "g">>,
             mime |-> "image/png"]
DotsJpeg == [path |-> <<"/", "d", "/", ".", ".", ".">>,
             mime |-> "image/jpeg"]
ScanGif  == [path |-> <<"/", "d", "/", "s", ".", "v", "2", ".", "g", "i", "f">>,
             mime |-> "image/gif"]

\* Files the user can select in Spec and in PathSpec.
Selectable == {PhotoJPG, LogoPng}
PathSelectable == {PhotoJPG, LogoPng, DotsJpeg, ScanGif}

\* get_file_items offers an operation only for a single image that is not
\* already of the target type.
Offered(op, file) ==
    CASE op = "png"  -> ~is_png(file)
      [] op = "jpeg" -> ~is_jpeg(file)
      [] op = "nobg" -> TRUE

----------------------------------------------------------------------------
(* bytes.decode("utf-8"), strict                                           *)

IsCont(b) == 128 <= b /\ b <= 191

\* Length of the well-formed UTF-8 sequence that starts b, 0 when b starts
\* with an ill-formed one.
Utf8Len(b) ==
    LET n == Len(b)
        b1 == b[1]
    IN  IF b1 < 128 THEN 1
        ELSE IF 194 <= b1 /\ b1 <= 223
            THEN IF n >= 2 /\ IsCont(b[2]) THEN 2 ELSE 0
        ELSE IF 224 <= b1 /\ b1 <= 239
            THEN IF /\ n >= 3
                    /\ IsCont(b[2])
                    /\ (b1 = 224 => b[2] >= 160)
                    /\ (b1 = 237 => b[2] <= 159)
                    /\ IsCont(b[3])
                 THEN 3 ELSE 0
        ELSE IF 240 <= b1 /\ b1 <= 244
            THEN IF /\ n >= 4
                    /\ IsCont(b[2])
                    /\ (b1 = 240 => b[2] >= 144)
                    /\ (b1 = 244 => b[2] <= 143)
                    /\ IsCont(b[3])
                    /\ IsCont(b[4])
                 THEN 4 ELSE 0
        ELSE 0

\* The code point encoded by the first k bytes of b.
CodePoint(b, k) ==
    CASE k = 1 -> b[1]
      [] k = 2 -> (b[1] - 192) * 64 + (b[2] - 128)
      [] k = 3 -> (b[1] - 224) * 4096 + (b[2] - 128) * 64 + (b[3] - 128)
      [] k = 4 -> (b[1] - 240) * 262144 + (b[2] - 128) * 4096
                    + (b[3] - 128) * 64 + (b[4] - 128)

\* bytes.decode("utf-8"): ok with the text, or not ok (UnicodeDecodeError).
RECURSIVE utf8_decode(_)
utf8_decode(b) ==
    IF b = <<>> THEN [ok |-> TRUE, text |-> <<>>]
    ELSE LET k == Utf8Len(b)
         IN  IF k = 0 THEN [ok |-> FALSE, text |-> <<>>]
             ELSE LET rest == utf8_decode(SubSeq(b, k + 1, Len(b)))
                  IN  IF rest.ok
                      THEN [ok |-> TRUE, text |-> <<CodePoint(b, k)>> \o rest.text]
                      ELSE [ok |-> FALSE, text |-> <<>>]

----------------------------------------------------------------------------
(* Notifier and the callbacks handed to GLib.idle_add                      *)

\* A formatted message: the f-string and the values substituted into it.
Message(fmt, args) == [fmt |-> fmt, args |-> args]

\* An idle source: the callback and its arguments.
Source(fn, title, message, icon) ==
    [fn |-> fn, title |-> title, message |-> message, icon |-> icon]

notify_info(title, message) ==
    Source("_show_notification", title, message, "dialog-information")

notify_error(title, message) ==
    Source("_show_notification", title, message, "dialog-error")

\* GLib.idle_add(on_success)
OnSuccessSource == Source("on_success", "", Message("", <<>>), "")

\* Variant: the continuation returns True, so its source stays queued.
KeepsContinuation(fn) == fn = "on_success"

\* What a callback returns to the main loop: _show_notification and the
\* on_success lambdas (the value of notify_info) return None, which GLib
\* takes as "remove this source".
CallbackKeepsSource(fn) == FALSE

\* The notify_info call made by the on_success lambda of each menu handler.
OnSuccessNotification(op, file_path) ==
    CASE op = "png" ->
           notify_info("Image Conversion",
                       Message("Converted {command.get_file_name()} to PNG format.",
                               <<get_file_name(file_path)>>))
      [] op = "jpeg" ->
           notify_info("Image Conversion",
                       Message("Converted {command.get_file_name()} to JPEG format.",
                               <<get_file_name(file_path)>>))
      [] op = "nobg" ->
           notify_info("White Background Removal",
                       Message("Removed white background from {command.get_file_name()}.",
                               <<get_file_name(file_path)>>))

----------------------------------------------------------------------------
(* ImageHelperCommand._runner                                              *)

\* How _runner leaves the worker thread: what it handed to idle_add, what it
\* called directly, and whether it returned or let an exception escape.
Returns(posts) == [posts |-> posts, calls |-> <<>>, pc |-> "returned", exc |-> "none"]
Propagates(e)  == [posts |-> <<>>, calls |-> <<>>, pc |-> "raised", exc |-> e]

\* Instance attributes set by ImageHelperCommand.__init__.
CommandAttrs == {"file_path", "notifier"}

NotFoundNotification ==
    notify_error("ImageMagick Not Found",
                 Message("Please install ImageMagick to use this feature.", <<>>))

\* except subprocess.CalledProcessError as e: e.stderr is decoded (bytes
\* only), then self.input_path is read, then notify_error is called.
OnCalledProcessError(stderr_type) ==
    IF stderr_type # "bytes" THEN Propagates("AttributeError")
    ELSE IF "input_path" \notin CommandAttrs THEN Propagates("AttributeError")
    ELSE Returns(<<notify_error("ImageMagick Failed",
                     Message("Error processing {self.input_path.name}: {error_message}",
                             <<>>))>>)

\* Variant: the except FileNotFoundError clause is missing.
ExceptWithoutNotFound(e, stderr_type) ==
    CASE e = "CalledProcessError" -> OnCalledProcessError(stderr_type)
      [] OTHER                    -> Propagates(e)

\* The except clauses of _runner applied to an exception raised in the try
\* body; stderr_type is the type of e.stderr of a CalledProcessError.
Except(e, stderr_type) ==
    CASE e = "FileNotFoundError"  -> Returns(<<NotFoundNotification>>)
      [] e = "CalledProcessError" -> OnCalledProcessError(stderr_type)
      [] OTHER                    -> Propagates(e)

\* The branch proc.returncode != 0 of the try body.
NonZeroExit(stdout, stderr) ==
    LET output == IF stdout # <<>> THEN utf8_decode(stdout) ELSE [ok |-> TRUE, text |-> <<>>]
        errtxt == IF stderr # <<>> THEN utf8_decode(stderr) ELSE [ok |-> TRUE, text |-> <<>>]
    IN  IF ~output.ok THEN Except("UnicodeDecodeError", "bytes")
        ELSE IF ~errtxt.ok THEN Except("UnicodeDecodeError", "bytes")
        ELSE LET h == Except("CalledProcessError", "str")
             IN  [h EXCEPT !.posts =
                     <<notify_error("ImageMagick Error",
                          Message("Command failed with error:\n{stderr}\nOutput:\n{output}",
                                  <<errtxt.text, output.text>>))>> \o @]

\* Variant: the worker calls the continuation itself instead of posting it.
ExitZeroInline(on_success) ==
    IF on_success
    THEN [posts |-> <<>>, calls |-> <<OnSuccessSource>>, pc |-> "returned", exc |-> "none"]
    ELSE Returns(<<>>)

\* The else clause of the try statement.
ExitZero(on_success) ==
    IF on_success THEN Returns(<<OnSuccessSource>>) ELSE Returns(<<>>)

\* _runner from the return of proc.communicate() to its end.
AfterCommunicate(on_success, returncode, stdout, stderr) ==
    IF returncode # 0 THEN NonZeroExit(stdout, stderr) ELSE ExitZero(on_success)

----------------------------------------------------------------------------
(* The state machine                                                       *)

\* What the external process may leave on its pipes: nothing or "é" (UTF-8)
\* on standard output, "e" or a byte that is not UTF-8 on standard error.
StdoutSamples == {<<>>, <<195, 169>>}
StderrSamples == {<<101>>, <<255>>}

ExitCodes == {0, 1}

Init ==
    /\ files = {f.path : f \in Selectable}
    /\ cmds = <<>>
    /\ worker = <<>>
    /\ proc = <<>>
    /\ idle = <<>>
    /\ posted = <<>>
    /\ ran = <<>>
    /\ disk = {f.path : f \in PathSelectable}
    /\ pending = <<>>
    /\ nconv = 0

\* idle_add calls made for Command c by thread `by`.
Post(c, by, sources) ==
    /\ idle' = idle \o [k \in 1..Len(sources) |-> sources[k] @@ [cmd |-> c]]
    /\ posted' = [posted EXCEPT ![c] = @ \o [k \in 1..Len(sources) |->
                                               sources[k] @@ [by |-> by]]]

\* Variant: execute() creates the output file it has chosen.
ExecuteReserving(op, file, on_success) ==
    /\ Len(cmds) < MaxCmds
    /\ LET file_path == file.path
           output_path == ExecuteOutputPath(op, files, file_path)
       IN  /\ cmds' = Append(cmds, [op          |-> op,
                                    file_path   |-> file_path,
                                    output_path |-> output_path,
                                    command     |-> CommandLine(op, file_path, output_path),
                                    on_success  |-> on_success])
           /\ files' = files \cup {output_path}
    /\ worker' = Append(worker, [pc |-> "popen", exc |-> "none"])
    /\ proc' = Append(proc, [st |-> "none", returncode |-> 0,
                             stdout |-> <<>>, stderr |-> <<>>])
    /\ posted' = Append(posted, <<>>)
    /\ ran' = Append(ran, <<>>)
    /\ UNCHANGED idle
    /\ UNCHANGED pathVars

\* Command(file.get_uri(), notifier).execute(on_success): __init__, the
\* output path, the argument list, and _run starting the worker thread.
Execute(op, file, on_success) ==
    /\ Len(cmds) < MaxCmds
    /\ LET file_path == file.path
           output_path == ExecuteOutputPath(op, files, file_path)
       IN  cmds' = Append(cmds, [op          |-> op,
                                 file_path   |-> file_path,
                                 output_path |-> output_path,
                                 command     |-> CommandLine(op, file_path, output_path),
                                 on_success  |-> on_success])
    /\ worker' = Append(worker, [pc |-> "popen", exc |-> "none"])
    /\ proc' = Append(proc, [st |-> "none", returncode |-> 0,
                             stdout |-> <<>>, stderr |-> <<>>])
    /\ posted' = Append(posted, <<>>)
    /\ ran' = Append(ran, <<>>)
    /\ UNCHANGED <<files, idle>>
    /\ UNCHANGED pathVars

convert_image_to_png(file) ==
    /\ Offered("png", file)
    /\ Execute("png", file, TRUE)

convert_image_to_jpeg(file) ==
    /\ Offered("jpeg", file)
    /\ Execute("jpeg", file, TRUE)

remove_white_background(file) ==
    /\ Offered("nobg", file)
    /\ Execute("nobg", file, TRUE)

\* The worker leaves _runner with outcome r.
Finish(c, r) ==
    /\ worker' = [worker EXCEPT ![c].pc = r.pc, ![c].exc = r.exc]
    /\ Post(c, "worker", r.posts)
    /\ ran' = [ran EXCEPT ![c] = @ \o [k \in 1..Len(r.calls) |->
                                         r.calls[k] @@ [thread |-> "worker"]]]

\* subprocess.Popen(command, ...) starts the process.
PopenStarts(c) ==
    /\ worker[c].pc = "popen"
    /\ worker' = [worker EXCEPT ![c].pc = "communicate"]
    /\ proc' = [proc EXCEPT ![c].st = "running"]
    /\ UNCHANGED <<files, cmds, idle, posted, ran>>
    /\ UNCHANGED pathVars

\* The OSError subclass Python raises for an errno of the failed exec.
OSErrorClass(errno) ==
    CASE errno = "ENOENT" -> "FileNotFoundError"
      [] errno = "EACCES" -> "PermissionError"

\* subprocess.Popen raises: the binary is not found (ENOENT), or it cannot
\* be executed (EACCES); the exception meets the except clauses of _runner.
PopenRaises(c, errno) ==
    /\ worker[c].pc = "popen"
    /\ proc' = [proc EXCEPT ![c].st = errno]
    /\ Finish(c, Except(OSErrorClass(errno), "bytes"))
    /\ UNCHANGED <<files, cmds>>
    /\ UNCHANGED pathVars

\* The external process exits; with status 0 it has written its output file.
ProcessExits(c, returncode, stdout, stderr) ==
    /\ proc[c].st = "running"
    /\ proc' = [proc EXCEPT ![c] = [st |-> "exited", returncode |-> returncode,
                                    stdout |-> stdout, stderr |-> stderr]]
    /\ files' = IF returncode = 0 THEN files \cup {cmds[c].command.dst} ELSE files
    /\ UNCHANGED <<cmds, worker, idle, posted, ran>>
    /\ UNCHANGED pathVars

\* proc.communicate() returns the drained pipes and the rest of _runner runs.
Communicate(c) ==
    /\ worker[c].pc = "communicate"
    /\ proc[c].st = "exited"
    /\ Finish(c, AfterCommunicate(cmds[c].on_success, proc[c].returncode,
                                   proc[c].stdout, proc[c].stderr))
    /\ proc' = [proc EXCEPT ![c].stdout = <<>>, ![c].stderr = <<>>]
    /\ UNCHANGED <<files, cmds>>
    /\ UNCHANGED pathVars

\* One iteration of the UI thread's main loop: the first idle source is
\* dispatched; it is kept only if its callback returns True.
MainLoopIdle ==
    /\ idle # <<>>
    /\ LET src == Head(idle)
           c == src.cmd
           call == [fn |-> src.fn, title |-> src.title, message |-> src.message,
                    icon |-> src.icon, thread |-> "ui"]
           more == IF src.fn = "on_success"
                   THEN <<OnSuccessNotification(cmds[c].op, cmds[c].file_path)>>
                   ELSE <<>>
           rest == IF CallbackKeepsSource(src.fn) THEN Append(Tail(idle), src) ELSE Tail(idle)
       IN  /\ ran' = [ran EXCEPT ![c] = Append(@, call)]
           /\ idle' = rest \o [k \in 1..Len(more) |-> more[k] @@ [cmd |-> c]]
           /\ posted' = [posted EXCEPT ![c] = @ \o [k \in 1..Len(more) |->
                                                      more[k] @@ [by |-> "ui"]]]
    /\ UNCHANGED <<files, cmds, worker, proc>>
    /\ UNCHANGED pathVars

ExecErrnos == {"ENOENT", "EACCES"}

Next ==
    \/ \E f \in Selectable : convert_image_to_png(f)
    \/ \E f \in Selectable : convert_image_to_jpeg(f)
    \/ \E f \in Selectable : remove_white_background(f)
    \/ \E c \in 1..Len(cmds) : PopenStarts(c)
    \/ \E c \in 1..Len(cmds), e \in ExecErrnos : PopenRaises(c, e)
    \/ \E c \in 1..Len(cmds), rc \in ExitCodes, out \in StdoutSamples,
          err \in StderrSamples :
          ProcessExits(c, rc, out, err)
    \/ \E c \in 1..Len(cmds) : Communicate(c)
    \/ MainLoopIdle

Spec == Init /\ [][Next]_vars

----------------------------------------------------------------------------
(* Output-path selection on its own: conversions run one after another     *)

\* execute() up to the call of _run: the output path is computed.
PathExecute(op, file) ==
    /\ pending = <<>>
    /\ nconv < MaxConv
    /\ Offered(op, file)
    /\ pending' = <<[op          |-> op,
                     file_path   |-> file.path,
                     name        |-> TargetName(op, file.path),
                     extension   |-> TargetExt(op),
                     output_path |-> ExecuteOutputPath(op, disk, file.path)]>>
    /\ UNCHANGED <<disk, nconv>>
    /\ UNCHANGED mainVars

\* The external process exits with status 0, having written its output file.
PathWrite ==
    /\ pending # <<>>
    /\ disk' = disk \cup {pending[1].output_path}
    /\ pending' = <<>>
    /\ nconv' = nconv + 1
    /\ UNCHANGED mainVars

\* Someone removes an earlier output file between two conversions.
PathUnlink(p) ==
    /\ pending = <<>>
    /\ p \in disk
    /\ p \notin {f.path : f \in PathSelectable}
    /\ disk' = disk \ {p}
    /\ UNCHANGED <<pending, nconv>>
    /\ UNCHANGED mainVars

PathNext ==
    \/ \E op \in Ops, f \in PathSelectable : PathExecute(op, f)
    \/ PathWrite
    \/ \E p \in disk : PathUnlink(p)

PathSpec == Init /\ [][PathNext]_vars

----------------------------------------------------------------------------
(* Properties                                                              *)

IsErrorNote(s) == s.fn = "_show_notification" /\ s.icon = "dialog-error"

\* The worker has left _runner.
Finished(c) == worker[c].pc \in {"returned", "raised"}

\* Positions in posted[c] of what the worker scheduled.
WorkerErrors(c) ==
    {k \in DOMAIN posted[c] : posted[c][k].by = "worker" /\ IsErrorNote(posted[c][k])}
WorkerSuccesses(c) ==
    {k \in DOMAIN posted[c] : posted[c][k].by = "worker" /\ posted[c][k].fn = "on_success"}

\* Positions in ran[c] of executions of the success continuation.
SuccessRuns(c) == {k \in DOMAIN ran[c] : ran[c][k].fn = "on_success"}

\* Positions in the idle queue of the sources of Command c.
Queued(c) == {k \in DOMAIN idle : idle[k].cmd = c}

ExitedZero(c) == proc[c].st = "exited" /\ proc[c].returncode = 0
ExitedNonZero(c) == proc[c].st = "exited" /\ proc[c].returncode # 0

\* C1: once the worker of a Command has finished, exactly one terminal
\* outcome has been scheduled by it on the UI queue: the success
\* continuation or exactly one error notification.
C1_ExactlyOneOutcome ==
    \A c \in 1..Len(cmds) :
        Finished(c) =>
            Cardinality(WorkerSuccesses(c)) + Cardinality(WorkerErrors(c)) = 1

\* C2: when the process exits with status 0 and a continuation was supplied,
\* the continuation is scheduled exactly once, run by the UI loop exactly
\* once (never again on later idle iterations), and no error notification
\* is scheduled for the Command.
C2_SuccessOnce ==
    \A c \in 1..Len(cmds) :
        (ExitedZero(c) /\ cmds[c].on_success) =>
            /\ \A k \in DOMAIN posted[c] : ~IsErrorNote(posted[c][k])
            /\ Cardinality(WorkerSuccesses(c)) <= 1
            /\ Cardinality(SuccessRuns(c)) <= 1
            /\ \A k \in SuccessRuns(c) : ran[c][k].thread = "ui"
            /\ Finished(c) => Cardinality(WorkerSuccesses(c)) = 1
            /\ (Finished(c) /\ \A k \in Queued(c) : idle[k].fn # "on_success")
                  => Cardinality(SuccessRuns(c)) = 1

\* A Command whose process exited 0 has had its continuation run once, and
\* the loop has gone on to show the notification the continuation scheduled.
C2_Witness ==
    \E c \in 1..Len(cmds) :
        /\ ExitedZero(c) /\ cmds[c].on_success
        /\ Cardinality(SuccessRuns(c)) = 1
        /\ Len(ran[c]) = 2
        /\ Queued(c) = {}

\* C3: when the process exits with a nonzero status, the worker schedules
\* exactly one error notification whose message contains the captured
\* standard error and standard output, and the success continuation is
\* never scheduled or run.
C3_NonZeroExit ==
    [][\A c \in 1..Len(cmds) :
          ExitedNonZero(c) =>
              /\ (worker[c].pc = "communicate" /\ worker'[c].pc # "communicate") =>
                    \E k \in DOMAIN posted'[c] :
                        /\ WorkerErrors(c)' = {k}
                        /\ posted'[c][k].message.args =
                              <<utf8_decode(proc[c].stderr).text,
                                utf8_decode(proc[c].stdout).text>>
              /\ WorkerSuccesses(c)' = {}
              /\ SuccessRuns(c)' = {}]_vars

\* C4: when the binary cannot be found, exactly one notification is
\* scheduled for the Command, it is the "ImageMagick Not Found" error asking
\* to install the tool, and the continuation is never scheduled.
C4_NotFound ==
    \A c \in 1..Len(cmds) :
        proc[c].st = "ENOENT" =>
            /\ Len(posted[c]) = 1
            /\ posted[c][1].by = "worker"
            /\ posted[c][1].fn = "_show_notification"
            /\ posted[c][1].title = "ImageMagick Not Found"
            /\ posted[c][1].message.fmt = "Please install ImageMagick to use this feature."
            /\ posted[c][1].icon = "dialog-error"
            /\ SuccessRuns(c) = {}

\* The not-installed notification of a Command has been shown by the UI loop.
C4_Witness ==
    \E c \in 1..Len(cmds) :
        /\ proc[c].st = "ENOENT"
        /\ Len(ran[c]) = 1
        /\ ran[c][1].title = "ImageMagick Not Found"
        /\ ran[c][1].thread = "ui"

\* C5: no exception escapes the worker's run function, and every failure of
\* launching or waiting on the process ends in an error notification.
C5_NothingEscapes ==
    \A c \in 1..Len(cmds) :
        /\ worker[c].pc # "raised"
        /\ (Finished(c) /\ (proc[c].st \in {"ENOENT", "EACCES"} \/ ExitedNonZero(c)))
              => WorkerErrors(c) # {}

\* C6: notifications are displayed and continuations run only by the UI
\* thread, each execution consuming a source from its idle queue; a worker
\* only enqueues.
C6_UIThreadOnly ==
    \A c \in 1..Len(cmds) :
        /\ \A k \in DOMAIN ran[c] : ran[c][k].thread = "ui"
        /\ Len(ran[c]) + Cardinality(Queued(c)) = Len(posted[c])

\* Two workers have handed over an error notification and a continuation,
\* and the UI loop has executed both.
C6_Witness ==
    \E c, d \in 1..Len(cmds) :
        /\ SuccessRuns(c) # {}
        /\ \E k \in DOMAIN ran[d] : IsErrorNote(ran[d][k])
        /\ WorkerSuccesses(c) # {}
        /\ WorkerErrors(d) # {}

\* "<dir>/<name> (i)<ext>" as the claims write it.
Numbered(p, i) ==
    get_file_directory(p.file_path) \o <<"/">> \o p.name
        \o <<" ", "(">> \o IntToStr(i) \o <<")">> \o p.extension

\* C7: the returned path does not exist; it is "<name><ext>" when that is
\* free, else "<name> (i)<ext>" for the smallest i >= 1 that is free.
C7_SmallestFreeSuffix ==
    pending # <<>> =>
        LET p == pending[1]
            plain == get_file_directory(p.file_path) \o <<"/">> \o p.name \o p.extension
        IN  /\ p.output_path \notin disk
            /\ plain \notin disk => p.output_path = plain
            /\ plain \in disk =>
                  \E i \in 1..(MaxConv + 1) :
                      /\ p.output_path = Numbered(p, i)
                      /\ \A j \in 1..(i - 1) : Numbered(p, j) \in disk

\* s ends with suffix t
EndsWith(s, t) == Len(s) >= Len(t) /\ SubSeq(s, Len(s) - Len(t) + 1, Len(s)) = t

\* C8: the destination lies in the source's directory, keeps the source's
\* base name (plus "-no-bg" for background removal), ends with the target
\* extension, and any disambiguator stands before the extension.
C8_TargetExtension ==
    pending # <<>> =>
        LET p == pending[1]
            stem == dirname(p.file_path) \o <<"/">> \o get_name(p.file_path)
                       \o (IF p.op = "nobg" THEN NoBgSuffix ELSE <<>>)
            target == IF p.op = "jpeg" THEN JpgExt ELSE PngExt
        IN  /\ dirname(p.output_path) = dirname(p.file_path)
            /\ EndsWith(p.output_path, target)
            /\ \/ p.output_path = stem \o target
               \/ \E i \in 1..(MaxConv + 1) :
                     p.output_path = stem \o <<" ", "(">> \o IntToStr(i) \o <<")">> \o target

\* C9: choosing an output path does not reserve it: a chosen path exists
\* only once the process of some Command with that destination has exited
\* successfully.
C9_NoReservation ==
    \A c \in 1..Len(cmds) :
        cmds[c].output_path \in files =>
            \E d \in 1..Len(cmds) :
                /\ cmds[d].command.dst = cmds[c].output_path
                /\ ExitedZero(d)

\* Two Commands of the same operation on the same source are in flight with
\* the same destination.
C9_Witness ==
    \E c, d \in 1..Len(cmds) :
        /\ c # d
        /\ cmds[c].op = cmds[d].op
        /\ cmds[c].file_path = cmds[d].file_path
        /\ cmds[c].command.dst = cmds[d].command.dst
        /\ proc[c].st = "running"
        /\ proc[d].st \in {"none", "running"}
        /\ ~Finished(c) /\ ~Finished(d)

\* C10: while the process of one Command has not exited, any other Command
\* whose process has exited and whose worker and idle sources are done has
\* had its continuation or its error notification run on the UI thread.
C10_OthersComplete ==
    \A c, d \in 1..Len(cmds) :
        (/\ c # d
         /\ proc[d].st = "running"
         /\ proc[c].st = "exited"
         /\ Finished(c)
         /\ Queued(c) = {})
            => \E k \in DOMAIN ran[c] :
                  /\ ran[c][k].thread = "ui"
                  /\ (ran[c][k].fn = "on_success" \/ IsErrorNote(ran[c][k]))

====
